---- MODULE Spec2Model ----
(***************************************************************************)
(* Model of the parking lot of CarParkingDemoSimulation.py: the ParkingLot *)
(* object, the ParkingTicket and ParkingPass objects it creates, and the   *)
(* wall clock read by datetime.now().                                      *)
(*                                                                         *)
(* Units.  A timestamp is an integer number of quarter hours.  A duration  *)
(* is an integer number of hundredths of an hour (what round(hours, 2)     *)
(* keeps).  A fee or an hourly rate is an integer number of cents.  Rates  *)
(* are multiples of 0.25 and the durations drawn are multiples of 0.25 h,  *)
(* so every float product of the program is exact and round(x, 2) is       *)
(* round-half-to-even on the exact value.                                  *)
(*                                                                         *)
(* Identifiers.  f"TKT-{n:04d}", f"MP-{n:04d}" and f"SP-{n:04d}" are       *)
(* modelled as the pairs <<"TKT", n>>, <<"MP", n>>, <<"SP", n>>.           *)
(* None is the empty tuple.  holder_name and _issue_date of a pass are     *)
(* only printed and are left out.                                          *)
(***************************************************************************)
EXTENDS Integers, Sequences, FiniteSets, TLC

\* ---------------------------------------------------------------- bounds
MaxSpaces == 2
MaxTickets == 2
MaxMonthly == 1
MaxSingle == 1

\* ------------------------------------------------------------- constants
None == <<>>
QuarterHoursPerDay == 96
FLAT_RATE == 1000

Vehicle(registration, type) == [registration |-> registration, type |-> type]
\* the vehicles that arrive at the gate
Vehicles == {Vehicle("XYZ-5678", "Car"), Vehicle("XYZ-5678", "Truck"),
             Vehicle("SGL-2222", "Motorcycle")}

\* instants the wall clock is sampled at: the start, and the expiry of a
\* pass issued at the start for one month (30 days = 2880 quarter hours)
ClockValues == {0, 2880}
\* timestamps a caller may pass as entry_time / exit_time
SuppliedTimes == {6}
\* simulated_duration values a caller may pass (hundredths of an hour)
SuppliedDurations == {350}
MonthsChoices == {1}
\* simulated_duration values passed when fees are examined: 0, 3.5 h, 4 h
\* and 5 h; the timestamps add 1.5 h, a tie at the Weekend rates
FeeDurations == {0, 350, 400, 500}
\* the strategies passed at exit when fees are examined; an exit without a
\* strategy uses the lot's StandardPricing
FeeStrategies == {"Peak Hours", "Weekend"}
\* the vehicle that arrives when passes are examined: the holder's car
PassVehicles == {Vehicle("XYZ-5678", "Car")}
\* the strategies passed at exit when passes are examined
PassStrategies == {"Weekend"}
\* the vehicles that arrive when fees are examined: one of each type
FeeVehicles == {Vehicle("XYZ-5678", "Car"), Vehicle("XYZ-5678", "Motorcycle"),
                Vehicle("XYZ-5678", "Truck")}

\* clock readings around the expiry of a one-month pass issued at the start
ExpiryClockValues == {0, 2879, 2880, 2881}
\* months argument of issue_monthly_pass
ExpiryMonths == {0, 1}

\* callers of vehicle_entry whose calls may overlap
Entrants == {1, 2}
\* the locals of a caller that is not inside vehicle_entry
NotEntering == [pc |-> "idle", vehicle |-> None, ticket_id |-> None]

\* count argument of set_occupied_spaces
OccupiedCounts == {-1, 0, 1, MaxSpaces + 1}

\* strategies an entry may name
EntryStrategies == {"Peak Hours", "Weekend"}

VARIABLES
    total_spaces,       \* ParkingLot.__total_spaces
    occupied_spaces,    \* ParkingLot.__occupied_spaces
    active_tickets,     \* ParkingLot.__active_tickets: ticket id -> ticket
    passes,             \* ParkingLot.__passes: pass id -> pass object
    ticket_counter,     \* ParkingLot.__ticket_counter
    pass_counter,       \* ParkingLot.__pass_counter
    now,                \* the wall clock, datetime.now()
    result,             \* the last call: its name, return value and report
    entering,           \* the calls of vehicle_entry in progress, by caller
    lot_pricing_strategy \* ParkingLot.__pricing_strategy, the default strategy

vars == <<total_spaces, occupied_spaces, active_tickets, passes,
          ticket_counter, pass_counter, now, result, entering,
          lot_pricing_strategy>>

lot == <<total_spaces, occupied_spaces, active_tickets, passes,
         ticket_counter, pass_counter, lot_pricing_strategy>>

\* ------------------------------------------------------------- vehicles
get_space_requirement(vehicle) ==
    IF vehicle.type = "Truck" THEN 2 ELSE 1

\* --------------------------------------------------------------- passes
MonthlyPass(registration, expiry) ==
    [type |-> "Monthly Pass", vehicle_registration |-> registration,
     expiry_date |-> expiry, is_used |-> FALSE]

SingleEntryPass(registration) ==
    [type |-> "Single Entry Pass", vehicle_registration |-> registration,
     expiry_date |-> 0, is_used |-> FALSE]

\* faulty variant: a monthly pass is still accepted at its expiry
is_valid_m(pass, clock) ==
    IF pass.type = "Monthly Pass"
    THEN clock <= pass.expiry_date
    ELSE ~pass.is_used

\* MonthlyPass.is_valid reads datetime.now(); SingleEntryPass.is_valid
\* reads the consumed flag
is_valid(pass, clock) ==
    IF pass.type = "Monthly Pass"
    THEN clock < pass.expiry_date
    ELSE ~pass.is_used

\* faulty variant: the consumed flag is never set
use_pass_m(pass) == pass

\* the pass object after use_pass(): only a SingleEntryPass changes
use_pass(pass) ==
    IF pass.type = "Single Entry Pass" /\ ~pass.is_used
    THEN [pass EXCEPT !.is_used = TRUE]
    ELSE pass

\* --------------------------------------------------------------- pricing
get_hourly_rate(strategy, vehicle_type) ==
    CASE strategy = "Standard" ->
            (CASE vehicle_type = "Car" -> 200
               [] vehicle_type = "Motorcycle" -> 100
               [] vehicle_type = "Truck" -> 300
               [] OTHER -> 200)
      [] strategy = "Peak Hours" ->
            (CASE vehicle_type = "Car" -> 400
               [] vehicle_type = "Motorcycle" -> 200
               [] vehicle_type = "Truck" -> 600
               [] OTHER -> 400)
      [] strategy = "Weekend" ->
            (CASE vehicle_type = "Car" -> 150
               [] vehicle_type = "Motorcycle" -> 75
               [] vehicle_type = "Truck" -> 225
               [] OTHER -> 150)

Abs(n) == IF n < 0 THEN 0 - n ELSE n

\* faulty variant: ties are rounded away from zero
RoundHalfEven_m(num, den) ==
    LET a == Abs(num)
        k == a \div den
        m == IF 2 * (a % den) >= den THEN k + 1 ELSE k
    IN  IF num < 0 THEN 0 - m ELSE m

\* round(num / den) to an integer, ties to the even neighbour, as Python's
\* round() does on an exactly represented value; den > 0
RoundHalfEven(num, den) ==
    LET a == Abs(num)
        k == a \div den
        r == a % den
        up == (2 * r > den) \/ (2 * r = den /\ k % 2 = 1)
        m == IF up THEN k + 1 ELSE k
    IN  IF num < 0 THEN 0 - m ELSE m

\* PricingStrategy.calculate_fee: round(hourly_rate * duration_hours, 2)
Strategy_calculate_fee(strategy, vehicle_type, duration_hours) ==
    RoundHalfEven(get_hourly_rate(strategy, vehicle_type) * duration_hours, 100)

\* --------------------------------------------------------------- tickets
\* faulty variant: every ticket is booked as one space
ParkingTicket_m(vehicle, entry_time) ==
    [vehicle |-> vehicle, entry_time |-> entry_time, exit_time |-> None,
     parking_pass |-> None, fee_charged |-> 0, spaces_used |-> 1]

ParkingTicket(vehicle, entry_time) ==
    [vehicle |-> vehicle, entry_time |-> entry_time, exit_time |-> None,
     parking_pass |-> None, fee_charged |-> 0,
     spaces_used |-> get_space_requirement(vehicle)]

\* custom_exit_time or self._exit_time or datetime.now(); datetimes are
\* always truthy, so only None falls through
get_duration_hours(ticket, custom_exit_time, clock) ==
    LET end_time == IF custom_exit_time # None THEN custom_exit_time[1]
                    ELSE IF ticket.exit_time # None THEN ticket.exit_time[1]
                    ELSE clock
        quarters == end_time - ticket.entry_time
    IN  RoundHalfEven(quarters * 900 * 100, 3600)

\* faulty variant: the registration comparison is missing
apply_pass_m(ticket, pass_id, pass) ==
    [ticket EXCEPT !.parking_pass = pass_id]

\* ParkingTicket.apply_pass: the ticket after the call
apply_pass(ticket, pass_id, pass) ==
    IF pass.vehicle_registration # ticket.vehicle.registration
    THEN ticket
    ELSE [ticket EXCEPT !.parking_pass = pass_id]

\* a Python float used as a condition: None and 0.0 are both false
Truthy(opt) == opt # None /\ opt[1] # 0

\* faulty variant: the monthly waiver is missing
Ticket_calculate_fee_nowaiver(ticket, registry, strategy, duration_hours, clock) ==
    LET pass == registry[ticket.parking_pass]
        attached == ticket.parking_pass # None
    IN  IF attached /\ pass.type = "Single Entry Pass" /\ is_valid(pass, clock)
        THEN [fee |-> FLAT_RATE, consumed |-> TRUE]
        ELSE LET duration == IF Truthy(duration_hours) THEN duration_hours[1]
                             ELSE get_duration_hours(ticket, None, clock)
             IN  [fee |-> Strategy_calculate_fee(strategy, ticket.vehicle.type, duration),
                  consumed |-> FALSE]

\* faulty variant: the metered branch returns the stale _fee_charged
Ticket_calculate_fee_stale(ticket, registry, strategy, duration_hours, clock) ==
    LET pass == registry[ticket.parking_pass]
        attached == ticket.parking_pass # None
    IN  IF attached /\ pass.type = "Monthly Pass" /\ is_valid(pass, clock)
        THEN [fee |-> 0, consumed |-> FALSE]
        ELSE IF attached /\ pass.type = "Single Entry Pass" /\ is_valid(pass, clock)
        THEN [fee |-> FLAT_RATE, consumed |-> TRUE]
        ELSE [fee |-> ticket.fee_charged, consumed |-> FALSE]

\* ParkingTicket.calculate_fee: the fee, and whether the attached pass was
\* consumed by use_pass()
Ticket_calculate_fee(ticket, registry, strategy, duration_hours, clock) ==
    LET pass == registry[ticket.parking_pass]
        attached == ticket.parking_pass # None
    IN  IF attached /\ pass.type = "Monthly Pass" /\ is_valid(pass, clock)
        THEN [fee |-> 0, consumed |-> FALSE]
        ELSE IF attached /\ pass.type = "Single Entry Pass" /\ is_valid(pass, clock)
        THEN [fee |-> FLAT_RATE, consumed |-> TRUE]
        ELSE LET duration == IF Truthy(duration_hours) THEN duration_hours[1]
                             ELSE get_duration_hours(ticket, None, clock)
             IN  [fee |-> Strategy_calculate_fee(strategy, ticket.vehicle.type, duration),
                  consumed |-> FALSE]

\* ------------------------------------------------------------------- lot
\* faulty variant: off by one
get_available_spaces_m == total_spaces - occupied_spaces + 1

get_available_spaces == total_spaces - occupied_spaces

\* faulty variant: the id is derived from the size of the registry
generate_ticket_id_m(counter) == <<"TKT", Cardinality(DOMAIN active_tickets) + 1>>

generate_ticket_id(counter) == <<"TKT", counter + 1>>

\* faulty variant: the single-entry branch writes the monthly prefix
generate_pass_id_m(pass_type, counter) ==
    IF pass_type = "monthly"
    THEN <<"MP", counter.monthly + 1>>
    ELSE <<"MP", counter.single + 1>>

generate_pass_id(pass_type, counter) ==
    IF pass_type = "monthly"
    THEN <<"MP", counter.monthly + 1>>
    ELSE <<"SP", counter.single + 1>>

Init ==
    /\ total_spaces \in 0..MaxSpaces
    /\ occupied_spaces = 0
    /\ active_tickets = <<>>
    /\ passes = <<>>
    /\ ticket_counter = 0
    /\ pass_counter = [monthly |-> 0, single |-> 0]
    /\ now = 0
    /\ result = [op |-> "init"]
    /\ entering = [p \in Entrants |-> NotEntering]
    /\ lot_pricing_strategy = "Standard"

\* datetime.now() moves forward between calls
Tick ==
    /\ \E t \in ClockValues : t > now /\ now' = t
    /\ UNCHANGED <<lot, result, entering>>

\* faulty variant: the ticket id is drawn before the capacity check
entry_denied_m(vehicle, pass_id) ==
    /\ result' = [op |-> "vehicle_entry", ret |-> None, vehicle |-> vehicle]
    /\ ticket_counter' = ticket_counter + 1
    /\ UNCHANGED <<lot_pricing_strategy, total_spaces, occupied_spaces, active_tickets, passes,
                   pass_counter, now, entering>>

\* vehicle_entry, the ENTRY DENIED branch: report and return None
entry_denied(vehicle, pass_id) ==
    /\ result' = [op |-> "vehicle_entry", ret |-> None, vehicle |-> vehicle]
    /\ UNCHANGED <<lot, now, entering>>

\* vehicle_entry, the pass lookup: the new ticket with or without the pass
attach_pass(ticket, pass_id) ==
    IF pass_id # None /\ pass_id \in DOMAIN passes
    THEN IF is_valid(passes[pass_id], now)
         THEN apply_pass(ticket, pass_id, passes[pass_id])
         ELSE ticket
    ELSE ticket

\* faulty variant: the strategy of the entry becomes the default of the lot
vehicle_entry_m(vehicle, pass_id, entry_time, pricing_strategy) ==
    LET spaces_needed == get_space_requirement(vehicle) IN
    IF get_available_spaces < spaces_needed
    THEN entry_denied(vehicle, pass_id)
    ELSE
    LET ticket_id == generate_ticket_id(ticket_counter)
        actual_entry_time == IF entry_time # None THEN entry_time[1] ELSE now
        ticket == attach_pass(ParkingTicket(vehicle, actual_entry_time), pass_id)
        strategy == IF pricing_strategy # None THEN pricing_strategy[1]
                    ELSE lot_pricing_strategy
    IN  /\ ticket_counter < MaxTickets
        /\ ticket_counter' = ticket_counter + 1
        /\ occupied_spaces' = occupied_spaces + spaces_needed
        /\ active_tickets' = (ticket_id :> ticket) @@ active_tickets
        /\ result' = [op |-> "vehicle_entry", ret |-> ticket_id,
                      vehicle |-> vehicle, pass_id |-> pass_id,
                      pass_applied |-> (ticket.parking_pass # None),
                      pricing |-> strategy]
        /\ lot_pricing_strategy' = strategy
        /\ UNCHANGED <<total_spaces, passes, pass_counter, now, entering>>

vehicle_entry(vehicle, pass_id, entry_time, pricing_strategy) ==
    LET spaces_needed == get_space_requirement(vehicle) IN
    IF get_available_spaces < spaces_needed
    THEN entry_denied(vehicle, pass_id)
    ELSE
    LET ticket_id == generate_ticket_id(ticket_counter)
        actual_entry_time == IF entry_time # None THEN entry_time[1] ELSE now
        ticket == attach_pass(ParkingTicket(vehicle, actual_entry_time), pass_id)
        strategy == IF pricing_strategy # None THEN pricing_strategy[1]
                    ELSE lot_pricing_strategy
    IN  /\ ticket_counter < MaxTickets
        /\ ticket_counter' = ticket_counter + 1
        /\ occupied_spaces' = occupied_spaces + spaces_needed
        /\ active_tickets' = (ticket_id :> ticket) @@ active_tickets
        /\ result' = [op |-> "vehicle_entry", ret |-> ticket_id,
                      vehicle |-> vehicle, pass_id |-> pass_id,
                      pass_applied |-> (ticket.parking_pass # None),
                      pricing |-> strategy]
        /\ UNCHANGED <<lot_pricing_strategy, total_spaces, passes, pass_counter, now, entering>>

\* faulty variant: a space is released before the lookup fails
exit_not_found_m(ticket_id) ==
    /\ result' = [op |-> "vehicle_exit", ret |-> None, ticket_id |-> ticket_id]
    /\ occupied_spaces' = occupied_spaces - 1
    /\ UNCHANGED <<lot_pricing_strategy, total_spaces, active_tickets, passes, ticket_counter,
                   pass_counter, now, entering>>

\* vehicle_exit, the ticket-not-found branch: report and return None
exit_not_found(ticket_id) ==
    /\ result' = [op |-> "vehicle_exit", ret |-> None, ticket_id |-> ticket_id]
    /\ UNCHANGED <<lot, now, entering>>

\* the exit_details dictionary returned by vehicle_exit
exit_details(ticket_id, ticket, actual_exit_time, duration, strategy, fee) ==
    [ticket_id |-> ticket_id,
     vehicle_reg |-> ticket.vehicle.registration,
     vehicle_type |-> ticket.vehicle.type,
     entry_time |-> ticket.entry_time,
     exit_time |-> actual_exit_time,
     duration_hours |-> duration,
     pricing_strategy |-> strategy,
     hourly_rate |-> get_hourly_rate(strategy, ticket.vehicle.type),
     total_fee |-> fee,
     pass_type |-> IF ticket.parking_pass # None
                   THEN <<passes[ticket.parking_pass].type>> ELSE None,
     pass_id |-> ticket.parking_pass]

\* faulty variant: every exit releases one space
vehicle_exit_m(ticket_id, exit_time, pricing_strategy, simulated_duration) ==
    IF ticket_id \notin DOMAIN active_tickets
    THEN exit_not_found(ticket_id)
    ELSE
    LET actual_exit_time == IF exit_time # None THEN exit_time[1] ELSE now
        ticket == [active_tickets[ticket_id] EXCEPT !.exit_time = <<actual_exit_time>>]
        strategy == IF pricing_strategy # None THEN pricing_strategy[1]
                    ELSE lot_pricing_strategy
        duration == IF Truthy(simulated_duration) THEN simulated_duration[1]
                    ELSE get_duration_hours(ticket, <<actual_exit_time>>, now)
        billed == Ticket_calculate_fee(ticket, passes, strategy, <<duration>>, now)
        pass_id == ticket.parking_pass
    IN  /\ passes' = IF billed.consumed
                     THEN [passes EXCEPT ![pass_id] = use_pass(passes[pass_id])]
                     ELSE passes
        /\ occupied_spaces' = occupied_spaces - 1
        /\ active_tickets' = [id \in DOMAIN active_tickets \ {ticket_id} |->
                                  active_tickets[id]]
        /\ result' = [op |-> "vehicle_exit", ticket_id |-> ticket_id,
                      ret |-> exit_details(ticket_id, ticket, actual_exit_time,
                                           duration, strategy, billed.fee)]
        /\ UNCHANGED <<lot_pricing_strategy, total_spaces, ticket_counter, pass_counter, now, entering>>

vehicle_exit(ticket_id, exit_time, pricing_strategy, simulated_duration) ==
    IF ticket_id \notin DOMAIN active_tickets
    THEN exit_not_found(ticket_id)
    ELSE
    LET actual_exit_time == IF exit_time # None THEN exit_time[1] ELSE now
        ticket == [active_tickets[ticket_id] EXCEPT !.exit_time = <<actual_exit_time>>]
        strategy == IF pricing_strategy # None THEN pricing_strategy[1]
                    ELSE lot_pricing_strategy
        duration == IF Truthy(simulated_duration) THEN simulated_duration[1]
                    ELSE get_duration_hours(ticket, <<actual_exit_time>>, now)
        billed == Ticket_calculate_fee(ticket, passes, strategy, <<duration>>, now)
        pass_id == ticket.parking_pass
    IN  /\ passes' = IF billed.consumed
                     THEN [passes EXCEPT ![pass_id] = use_pass(passes[pass_id])]
                     ELSE passes
        /\ occupied_spaces' = occupied_spaces - ticket.spaces_used
        /\ active_tickets' = [id \in DOMAIN active_tickets \ {ticket_id} |->
                                  active_tickets[id]]
        /\ result' = [op |-> "vehicle_exit", ticket_id |-> ticket_id,
                      ret |-> exit_details(ticket_id, ticket, actual_exit_time,
                                           duration, strategy, billed.fee)]
        /\ UNCHANGED <<lot_pricing_strategy, total_spaces, ticket_counter, pass_counter, now, entering>>

issue_monthly_pass(vehicle_registration, months) ==
    LET pass_id == generate_pass_id("monthly", pass_counter)
        expiry_date == now + 30 * months * QuarterHoursPerDay
    IN  /\ pass_counter.monthly < MaxMonthly
        /\ pass_counter' = [pass_counter EXCEPT !.monthly = @ + 1]
        /\ passes' = (pass_id :> MonthlyPass(vehicle_registration, expiry_date)) @@ passes
        /\ result' = [op |-> "issue_monthly_pass", ret |-> pass_id]
        /\ UNCHANGED <<lot_pricing_strategy, total_spaces, occupied_spaces, active_tickets,
                       ticket_counter, now, entering>>

\* faulty variant: issuing a single-entry pass advances both counters
issue_single_pass_m(vehicle_registration) ==
    LET pass_id == generate_pass_id("single", pass_counter)
    IN  /\ pass_counter.single < MaxSingle
        /\ pass_counter' = [monthly |-> pass_counter.monthly + 1,
                            single |-> pass_counter.single + 1]
        /\ passes' = (pass_id :> SingleEntryPass(vehicle_registration)) @@ passes
        /\ result' = [op |-> "issue_single_pass", ret |-> pass_id]
        /\ UNCHANGED <<lot_pricing_strategy, total_spaces, occupied_spaces, active_tickets,
                       ticket_counter, now, entering>>

issue_single_pass(vehicle_registration) ==
    LET pass_id == generate_pass_id("single", pass_counter)
    IN  /\ pass_counter.single < MaxSingle
        /\ pass_counter' = [pass_counter EXCEPT !.single = @ + 1]
        /\ passes' = (pass_id :> SingleEntryPass(vehicle_registration)) @@ passes
        /\ result' = [op |-> "issue_single_pass", ret |-> pass_id]
        /\ UNCHANGED <<lot_pricing_strategy, total_spaces, occupied_spaces, active_tickets,
                       ticket_counter, now, entering>>

\* the occupancy is overwritten by min(count, total_spaces)
set_occupied_spaces(count) ==
    /\ occupied_spaces' = IF count < total_spaces THEN count ELSE total_spaces
    /\ result' = [op |-> "set_occupied_spaces", ret |-> None, count |-> count]
    /\ UNCHANGED <<lot_pricing_strategy, total_spaces, active_tickets, passes, ticket_counter,
                   pass_counter, now, entering>>

\* faulty variant: the report counts the tickets ever issued
get_status_m ==
    /\ result' = [op |-> "get_status",
                  ret |-> [total_spaces |-> total_spaces,
                           occupied_spaces |-> occupied_spaces,
                           available_spaces |-> get_available_spaces,
                           active_tickets |-> ticket_counter,
                           registered_passes |-> Cardinality(DOMAIN passes)]]
    /\ UNCHANGED <<lot, now, entering>>

get_status ==
    /\ result' = [op |-> "get_status",
                  ret |-> [total_spaces |-> total_spaces,
                           occupied_spaces |-> occupied_spaces,
                           available_spaces |-> get_available_spaces,
                           active_tickets |-> Cardinality(DOMAIN active_tickets),
                           registered_passes |-> Cardinality(DOMAIN passes)]]
    /\ UNCHANGED <<lot, now, entering>>

\* vehicle_entry run by caller p in four steps, other callers running between
\* them.  First step: the call reads the free capacity and compares it with
\* the requirement; a denied call returns None.
entry_check(p, vehicle) ==
    /\ entering[p].pc = "idle"
    /\ IF get_available_spaces < get_space_requirement(vehicle)
       THEN /\ entering' = [entering EXCEPT ![p].pc = "done", ![p].vehicle = vehicle]
            /\ result' = [op |-> "vehicle_entry", ret |-> None, vehicle |-> vehicle]
       ELSE /\ entering' = [entering EXCEPT ![p].pc = "generate", ![p].vehicle = vehicle]
            /\ UNCHANGED result
    /\ UNCHANGED <<lot, now>>

\* second step: _generate_ticket_id advances the counter and formats the id
entry_generate(p) ==
    /\ entering[p].pc = "generate"
    /\ ticket_counter < MaxTickets
    /\ ticket_counter' = ticket_counter + 1
    /\ entering' = [entering EXCEPT ![p].pc = "occupy",
                                    ![p].ticket_id = generate_ticket_id(ticket_counter)]
    /\ UNCHANGED <<lot_pricing_strategy, total_spaces, occupied_spaces, active_tickets, passes,
                   pass_counter, now, result>>

\* third step: the requirement is added to the occupied spaces
entry_occupy(p) ==
    /\ entering[p].pc = "occupy"
    /\ occupied_spaces' = occupied_spaces + get_space_requirement(entering[p].vehicle)
    /\ entering' = [entering EXCEPT ![p].pc = "register"]
    /\ UNCHANGED <<lot_pricing_strategy, total_spaces, active_tickets, passes, ticket_counter,
                   pass_counter, now, result>>

\* fourth step: the ticket is stored under its id and returned
entry_register(p) ==
    LET ticket_id == entering[p].ticket_id
        ticket == ParkingTicket(entering[p].vehicle, now)
    IN  /\ entering[p].pc = "register"
        /\ active_tickets' = (ticket_id :> ticket) @@ active_tickets
        /\ entering' = [entering EXCEPT ![p].pc = "done"]
        /\ result' = [op |-> "vehicle_entry", ret |-> ticket_id,
                      vehicle |-> entering[p].vehicle, pass_id |-> None,
                      pass_applied |-> FALSE,
                      pricing |-> lot_pricing_strategy]
        /\ UNCHANGED <<lot_pricing_strategy, total_spaces, occupied_spaces, passes, ticket_counter,
                       pass_counter, now>>

\* ---------------------------------------------------------- call inputs
Opt(S) == {None} \cup {<<x>> : x \in S}
PassIdInputs == {None, <<"INVALID", 1>>}
                    \cup {<<"MP", n>> : n \in 1..MaxMonthly}
                    \cup {<<"SP", n>> : n \in 1..MaxSingle}
TicketIdInputs == {<<"TKT", n>> : n \in 1..(MaxTickets + 1)}

\* ------------------------------------------ the lot under arbitrary calls
\* Capacity and registry accounting: the calls come with default time and
\* strategy arguments while the clock stands at the start.
Entry ==
    \E vehicle \in Vehicles, pass_id \in PassIdInputs :
        vehicle_entry(vehicle, pass_id, None, None)

Exit ==
    \E ticket_id \in TicketIdInputs,
       simulated_duration \in Opt(SuppliedDurations) :
        vehicle_exit(ticket_id, None, None, simulated_duration)

\* as in the demonstration, the monthly pass goes to XYZ-5678 and the
\* single-entry pass to SGL-2222
IssueMonthly == \E months \in MonthsChoices : issue_monthly_pass("XYZ-5678", months)

IssueSingle == issue_single_pass("SGL-2222")

Next == Entry \/ Exit \/ IssueMonthly \/ IssueSingle

Spec == Init /\ [][Next]_vars

\* ------------------------------------------- the lot with status queries
\* The same calls, with get_status asked between any two of them.
GetStatus == get_status

NextStatus == Next \/ GetStatus

SpecStatus == Init /\ [][NextStatus]_vars

\* ------------------------------------------------ the lot billing by meter
\* A lot of two spaces; vehicles of every type enter at the time of the clock
\* and leave with supplied or default exit times, every strategy and a range
\* of simulated durations;
\* one monthly pass may be issued and may expire while its holder is parked.
InitFee == Init /\ total_spaces = 2

FeeEntry ==
    \E vehicle \in FeeVehicles, pass_id \in {None, <<"MP", 1>>} :
        vehicle_entry(vehicle, pass_id, None, None)

\* the arguments other than the id are drawn for the ids the registry holds;
\* the not-found branch does not read them
FeeExit ==
    \/ \E ticket_id \in TicketIdInputs \ DOMAIN active_tickets :
          vehicle_exit(ticket_id, None, None, None)
    \/ \E ticket_id \in DOMAIN active_tickets, exit_time \in Opt(SuppliedTimes),
          pricing_strategy \in Opt(FeeStrategies),
          simulated_duration \in Opt(FeeDurations) :
          vehicle_exit(ticket_id, exit_time, pricing_strategy, simulated_duration)

FeeIssueMonthly == issue_monthly_pass("XYZ-5678", 1)

NextFee == FeeEntry \/ FeeExit \/ FeeIssueMonthly \/ Tick

SpecFee == InitFee /\ [][NextFee]_vars

\* ------------------------------------------------ the lot billing by pass
\* A lot of two spaces; passes of both kinds are issued to one registration;
\* the holder's car comes and goes, once or twice at a time, naming any pass
\* or none, while the clock runs up to the expiry of the monthly pass.
InitPass == Init /\ total_spaces = 2

PassEntry ==
    \E vehicle \in PassVehicles, pass_id \in PassIdInputs,
       entry_time \in Opt(SuppliedTimes) :
        vehicle_entry(vehicle, pass_id, entry_time, None)

\* the arguments other than the id are drawn for the ids the registry holds;
\* the not-found branch does not read them
PassExit ==
    \/ \E ticket_id \in TicketIdInputs \ DOMAIN active_tickets :
          vehicle_exit(ticket_id, None, None, None)
    \/ \E ticket_id \in DOMAIN active_tickets,
          pricing_strategy \in Opt(PassStrategies),
          simulated_duration \in Opt(SuppliedDurations) :
          vehicle_exit(ticket_id, None, pricing_strategy, simulated_duration)

PassIssueMonthly == \E months \in MonthsChoices : issue_monthly_pass("XYZ-5678", months)

PassIssueSingle == issue_single_pass("XYZ-5678")

NextPass == PassEntry \/ PassExit \/ PassIssueMonthly \/ PassIssueSingle \/ Tick

SpecPass == InitPass /\ [][NextPass]_vars

\* ------------------------------------------- the lot around a pass expiry
\* A lot of one space; monthly passes of one month or of none are issued to
\* one registration at any reading of the clock; the holder's car comes and
\* goes with default arguments just before, at and after the expiry.
InitExpiry == Init /\ total_spaces = 1

ExpiryEntry ==
    \E vehicle \in PassVehicles,
       pass_id \in {None} \cup {<<"MP", n>> : n \in 1..MaxMonthly} :
        vehicle_entry(vehicle, pass_id, None, None)

ExpiryExit ==
    \E ticket_id \in TicketIdInputs : vehicle_exit(ticket_id, None, None, None)

ExpiryIssueMonthly ==
    \E months \in ExpiryMonths : issue_monthly_pass("XYZ-5678", months)

ExpiryTick ==
    /\ \E t \in ExpiryClockValues : t > now /\ now' = t
    /\ UNCHANGED <<lot, result, entering>>

NextExpiry == ExpiryEntry \/ ExpiryExit \/ ExpiryIssueMonthly \/ ExpiryTick

SpecExpiry == InitExpiry /\ [][NextExpiry]_vars

\* --------------------------------------------- the lot under two entrants
\* Two callers enter one vehicle each, without pass and at the time of the
\* clock; the steps of their calls interleave in every order.
RaceCheck == \E p \in Entrants, vehicle \in Vehicles : entry_check(p, vehicle)

RaceGenerate == \E p \in Entrants : entry_generate(p)

RaceOccupy == \E p \in Entrants : entry_occupy(p)

RaceRegister == \E p \in Entrants : entry_register(p)

NextRace == RaceCheck \/ RaceGenerate \/ RaceOccupy \/ RaceRegister

SpecRace == Init /\ [][NextRace]_vars

\* ------------------------------------- the lot with its occupancy overwritten
\* Entries and exits with default arguments, with set_occupied_spaces called
\* between any two of them.
SetOccupied == \E count \in OccupiedCounts : set_occupied_spaces(count)

NextOverride == Entry \/ Exit \/ SetOccupied

SpecOverride == Init /\ [][NextOverride]_vars

\* ------------------------------------------ the lot under named strategies
\* A lot of two spaces; vehicles of every type enter without pass, naming any
\* strategy or none, and leave naming any strategy or none, with or without a
\* simulated duration.
InitStrategy == Init /\ total_spaces = 2

StrategyEntry ==
    \E vehicle \in FeeVehicles, pricing_strategy \in Opt(EntryStrategies) :
        vehicle_entry(vehicle, None, None, pricing_strategy)

StrategyExit ==
    \/ \E ticket_id \in TicketIdInputs \ DOMAIN active_tickets :
          vehicle_exit(ticket_id, None, None, None)
    \/ \E ticket_id \in DOMAIN active_tickets,
          pricing_strategy \in Opt(FeeStrategies),
          simulated_duration \in Opt(SuppliedDurations) :
          vehicle_exit(ticket_id, None, pricing_strategy, simulated_duration)

NextStrategy == StrategyEntry \/ StrategyExit

SpecStrategy == InitStrategy /\ [][NextStrategy]_vars

\* ====================================================== checked properties
RECURSIVE SumSpaces(_)
SumSpaces(ids) ==
    IF ids = {} THEN 0
    ELSE LET id == CHOOSE x \in ids : TRUE
         IN  active_tickets[id].spaces_used + SumSpaces(ids \ {id})

EntryReturned == result.op = "vehicle_entry" /\ result.ret # None
EntryWasDenied == result.op = "vehicle_entry" /\ result.ret = None
ExitReturned == result.op = "vehicle_exit" /\ result.ret # None
ExitNotFound == result.op = "vehicle_exit" /\ result.ret = None

\* C1: after every operation occupied_spaces equals the sum of spaces_used
\* over the tickets in the active registry.
C1_OccupiedIsSum == occupied_spaces = SumSpaces(DOMAIN active_tickets)

\* a Truck has entered after an earlier ticket has exited
C1_Witness ==
    /\ EntryReturned
    /\ active_tickets[result.ret].spaces_used = 2
    /\ ticket_counter = 2
    /\ occupied_spaces = 2

\* C2: an entry attempted when total - occupied is less than the vehicle's
\* space requirement returns no ticket and leaves occupied_spaces, the
\* active registry, the pass registry and the id counters unchanged.
C2_DeniedEntryChangesNothing ==
    [][(/\ result'.op = "vehicle_entry" /\ result' # result
        /\ total_spaces - occupied_spaces
              < (IF result'.vehicle.type = "Truck" THEN 2 ELSE 1))
       => (/\ result'.ret = None
           /\ UNCHANGED <<total_spaces, occupied_spaces, active_tickets,
                          passes, ticket_counter, pass_counter>>)]_vars

\* a Truck has just been denied with exactly one space free
C2_Witness ==
    /\ EntryWasDenied
    /\ result.vehicle.type = "Truck"
    /\ total_spaces - occupied_spaces = 1

\* C3: 0 <= occupied_spaces <= total_spaces in every reachable state.
C3_OccupiedWithinBounds ==
    0 <= occupied_spaces /\ occupied_spaces <= total_spaces

\* an entry has just filled the lot
C3_Witness ==
    /\ EntryReturned
    /\ total_spaces > 0
    /\ occupied_spaces = total_spaces

\* C6: vehicle_exit with a ticket id that is not in the active registry
\* returns the not-found result and changes neither the registry, nor
\* occupied_spaces, nor any pass, nor a counter.
C6_UnknownExitChangesNothing ==
    [][(/\ result'.op = "vehicle_exit" /\ result' # result
        /\ result'.ticket_id \notin DOMAIN active_tickets)
       => (/\ result'.ret = None
           /\ UNCHANGED <<total_spaces, occupied_spaces, active_tickets,
                          passes, ticket_counter, pass_counter>>)]_vars

\* an exit was refused while a ticket with an unconsumed single pass is parked
C6_Witness ==
    /\ ExitNotFound
    /\ \E id \in DOMAIN active_tickets :
          /\ active_tickets[id].parking_pass # None
          /\ passes[active_tickets[id].parking_pass].type = "Single Entry Pass"
          /\ ~passes[active_tickets[id].parking_pass].is_used

IssuedTicketIds == {<<"TKT", n>> : n \in 1..ticket_counter}

\* C7: a ticket id that has left the active registry never returns to it,
\* a successful exit removes exactly the ticket it bills, and an exit with
\* an id that has already exited is refused with no state change.
C7_TicketLifecycleOneWay ==
    [][/\ \A id \in IssuedTicketIds :
            id \notin DOMAIN active_tickets => id \notin DOMAIN active_tickets'
       /\ (result'.op = "vehicle_exit" /\ result' # result /\ result'.ret # None)
            => (/\ result'.ticket_id \in DOMAIN active_tickets
                /\ result'.ticket_id \notin DOMAIN active_tickets'
                /\ result'.ticket_id \in IssuedTicketIds
                /\ occupied_spaces' =
                     occupied_spaces - active_tickets[result'.ticket_id].spaces_used)
       /\ (result'.op = "vehicle_exit" /\ result' # result
             /\ result'.ticket_id \in IssuedTicketIds
             /\ result'.ticket_id \notin DOMAIN active_tickets)
            => (result'.ret = None /\ UNCHANGED lot)]_vars

\* a second exit with the id of a ticket that has already exited was refused
C7_Witness ==
    /\ ExitNotFound
    /\ result.ticket_id \in IssuedTicketIds

\* C10 (state part): a ticket with a pass attached belongs to a vehicle whose
\* registration is the one the pass is bound to; so does every receipt.
C10_AttachedPassMatches ==
    /\ \A id \in DOMAIN active_tickets :
          active_tickets[id].parking_pass # None =>
             passes[active_tickets[id].parking_pass].vehicle_registration
                = active_tickets[id].vehicle.registration
    /\ (ExitReturned /\ result.ret.pass_id # None) =>
          passes[result.ret.pass_id].vehicle_registration = result.ret.vehicle_reg

\* C10: every ticket with a pass attached has the registration the pass is
\* bound to, and an entry naming a registered valid pass bound to another
\* registration succeeds with no pass attached.
C10_PassBoundToRegistration ==
    /\ []C10_AttachedPassMatches
    /\ [][(/\ result'.op = "vehicle_entry" /\ result' # result
           /\ total_spaces - occupied_spaces
                 >= (IF result'.vehicle.type = "Truck" THEN 2 ELSE 1))
          => (/\ result'.ret # None
              /\ (/\ result'.pass_id \in DOMAIN passes
                  /\ passes[result'.pass_id].vehicle_registration
                        # result'.vehicle.registration)
                 => active_tickets'[result'.ret].parking_pass = None)]_vars

\* an entry named a valid pass of another registration and got a bare ticket
C10_Witness ==
    /\ EntryReturned
    /\ result.pass_id \in DOMAIN passes
    /\ is_valid(passes[result.pass_id], now)
    /\ passes[result.pass_id].vehicle_registration # result.vehicle.registration
    /\ active_tickets[result.ret].parking_pass = None

\* the published rate tables, in cents per hour
RateTable ==
    ("Standard" :> [Car |-> 200, Motorcycle |-> 100, Truck |-> 300])
    @@ ("Peak Hours" :> [Car |-> 400, Motorcycle |-> 200, Truck |-> 600])
    @@ ("Weekend" :> [Car |-> 150, Motorcycle |-> 75, Truck |-> 225])

\* fee (cents) is rate (cents per hour) times duration (hundredths of an
\* hour) rounded to the nearest cent, an exact half going to the even cent
IsRoundedProduct(fee, rate, duration) ==
    LET e == 100 * fee - rate * duration
    IN  \/ 2 * Abs(e) < 100
        \/ 2 * Abs(e) = 100 /\ fee % 2 = 0

\* the receipt bills by the meter at the rate of its strategy
MeteredReceipt(receipt) ==
    IsRoundedProduct(receipt.total_fee,
                     RateTable[receipt.pricing_strategy][receipt.vehicle_type],
                     receipt.duration_hours)

\* the ticket carries a pass that is_valid() accepts at this moment
HasValidPass(ticket) ==
    /\ ticket.parking_pass # None
    /\ \/ /\ passes[ticket.parking_pass].type = "Monthly Pass"
          /\ now < passes[ticket.parking_pass].expiry_date
       \/ /\ passes[ticket.parking_pass].type = "Single Entry Pass"
          /\ ~passes[ticket.parking_pass].is_used

\* a call of vehicle_exit has just returned a receipt
ExitStep == result'.op = "vehicle_exit" /\ result' # result /\ result'.ret # None

\* C9: when no valid pass applies, the fee charged at exit is
\* round(hourly_rate(category) x duration_hours, 2) at the published rates of
\* the strategy of the exit; Car/Standard/3.5h = 7.00, Truck/Peak/4.0h = 24.00
\* and Motorcycle/Weekend/5.0h = 3.75.
C9_MeteredFee ==
    [][(ExitStep /\ ~HasValidPass(active_tickets[result'.ticket_id]))
       => LET r == result'.ret
              case(type, strategy, hours) ==
                  /\ r.vehicle_type = type
                  /\ r.pricing_strategy = strategy
                  /\ r.duration_hours = hours
          IN  /\ MeteredReceipt(r)
              /\ case("Car", "Standard", 350) => r.total_fee = 700
              /\ case("Truck", "Peak Hours", 400) => r.total_fee = 2400
              /\ case("Motorcycle", "Weekend", 500) => r.total_fee = 375]_vars

\* a Motorcycle whose monthly pass expired while it was parked has paid the
\* Weekend rate for 5 hours
C9_Witness ==
    /\ ExitReturned
    /\ result.ret.vehicle_type = "Motorcycle"
    /\ result.ret.pricing_strategy = "Weekend"
    /\ result.ret.duration_hours = 500
    /\ result.ret.total_fee = 375
    /\ result.ret.pass_id # None

\* a call of vehicle_entry has just returned, with room for the vehicle
EntryStepWithRoom ==
    /\ result'.op = "vehicle_entry" /\ result' # result
    /\ total_spaces - occupied_spaces
          >= (IF result'.vehicle.type = "Truck" THEN 2 ELSE 1)

IsMonthly(pass_id) ==
    pass_id \in DOMAIN passes /\ passes[pass_id].type = "Monthly Pass"

IsSingle(pass_id) ==
    pass_id \in DOMAIN passes /\ passes[pass_id].type = "Single Entry Pass"

\* C4: the exit of a ticket carrying a monthly pass that has not expired is
\* charged 0 whatever the duration and the strategy and leaves the pass as
\* it was; an entry of the holder's vehicle naming the unexpired pass gets
\* it attached again, so every later session before the expiry is free too.
C4_MonthlyPassWaivesFee ==
    [][/\ (/\ ExitStep
           /\ IsMonthly(active_tickets[result'.ticket_id].parking_pass)
           /\ now < passes[active_tickets[result'.ticket_id].parking_pass].expiry_date)
          => (/\ result'.ret.total_fee = 0
              /\ result'.ret.pass_id = active_tickets[result'.ticket_id].parking_pass
              /\ passes' = passes)
       /\ (/\ EntryStepWithRoom
           /\ IsMonthly(result'.pass_id)
           /\ now < passes[result'.pass_id].expiry_date
           /\ passes[result'.pass_id].vehicle_registration
                 = result'.vehicle.registration)
          => (/\ result'.ret # None
              /\ active_tickets'[result'.ret].parking_pass = result'.pass_id)]_vars

\* the second ticket of the lot has left for free on the monthly pass after
\* 3.5 hours at the Weekend rate
C4_Witness ==
    /\ ExitReturned
    /\ result.ret.ticket_id = <<"TKT", 2>>
    /\ result.ret.pass_type = <<"Monthly Pass">>
    /\ result.ret.pricing_strategy = "Weekend"
    /\ result.ret.duration_hours = 350
    /\ result.ret.total_fee = 0
    /\ active_tickets = <<>>
    /\ now < passes[result.ret.pass_id].expiry_date

\* C5: the exit of a ticket carrying an unconsumed single-entry pass is
\* charged the flat rate and consumes the pass; a consumed pass is never
\* valid again; the exit of a ticket carrying a consumed pass, and the exit
\* of a ticket that named a consumed pass at entry and so carries none,
\* succeed at the metered fee.
C5_SinglePassFlatRateOnce ==
    [][/\ (ExitStep /\ IsSingle(active_tickets[result'.ticket_id].parking_pass))
          => LET pass_id == active_tickets[result'.ticket_id].parking_pass
             IN  IF ~passes[pass_id].is_used
                 THEN /\ result'.ret.total_fee = FLAT_RATE
                      /\ passes'[pass_id].is_used
                      /\ \A other \in DOMAIN passes \ {pass_id} :
                            passes'[other] = passes[other]
                 ELSE /\ MeteredReceipt(result'.ret)
                      /\ passes' = passes
       /\ \A pass_id \in DOMAIN passes :
             passes[pass_id].is_used =>
                (pass_id \in DOMAIN passes' /\ passes'[pass_id].is_used)
       /\ (/\ EntryStepWithRoom
           /\ IsSingle(result'.pass_id)
           /\ passes[result'.pass_id].is_used)
          => (/\ result'.ret # None
              /\ active_tickets'[result'.ret].parking_pass = None)
       /\ (ExitStep /\ active_tickets[result'.ticket_id].parking_pass = None)
          => MeteredReceipt(result'.ret)]_vars

\* a ticket carrying a single-entry pass that another exit had consumed has
\* left at the metered fee
C5_Witness ==
    /\ ExitReturned
    /\ result.ret.pass_type = <<"Single Entry Pass">>
    /\ result.ret.ticket_id = <<"TKT", 2>>
    /\ result.ret.total_fee # FLAT_RATE
    /\ result.ret.total_fee > 0
    /\ passes[result.ret.pass_id].is_used

\* C8: an entry naming a pass id that is not registered, with room for the
\* vehicle, issues a ticket without a pass and adds the vehicle's spaces;
\* the exit of a ticket without a pass is charged the metered fee and
\* touches no pass.
C8_UnknownPassIsMetered ==
    [][/\ (/\ EntryStepWithRoom
           /\ result'.pass_id # None
           /\ result'.pass_id \notin DOMAIN passes)
          => (/\ result'.ret # None
              /\ ~result'.pass_applied
              /\ result'.ret \in DOMAIN active_tickets'
              /\ active_tickets'[result'.ret].parking_pass = None
              /\ occupied_spaces' = occupied_spaces
                    + (IF result'.vehicle.type = "Truck" THEN 2 ELSE 1))
       /\ (ExitStep /\ active_tickets[result'.ticket_id].parking_pass = None)
          => (/\ result'.ret.pass_id = None
              /\ MeteredReceipt(result'.ret)
              /\ passes' = passes)]_vars

\* an entry naming an unregistered pass id has got a bare ticket while
\* valid passes of both kinds are registered
C8_Witness ==
    /\ EntryReturned
    /\ result.pass_id = <<"INVALID", 1>>
    /\ active_tickets[result.ret].parking_pass = None
    /\ \E p \in DOMAIN passes : passes[p].type = "Monthly Pass"
    /\ \E p \in DOMAIN passes : passes[p].type = "Single Entry Pass"

\* a call of a pass-issuing operation has just returned
IssueStep ==
    /\ result'.op \in {"issue_monthly_pass", "issue_single_pass"}
    /\ result' # result

C12_StatusReadOnly ==
    [][result'.op = "get_status"
       => (/\ UNCHANGED lot
           /\ result.op = "get_status" => result' = result
           /\ result'.ret.total_spaces = total_spaces
           /\ result'.ret.occupied_spaces = occupied_spaces
           /\ result'.ret.available_spaces = total_spaces - occupied_spaces
           /\ result'.ret.active_tickets = Cardinality(DOMAIN active_tickets)
           /\ result'.ret.registered_passes = Cardinality(DOMAIN passes))]_vars

\* the status of a full lot of two spaces whose first ticket has left, with
\* both passes registered
C12_Witness ==
    /\ result.op = "get_status"
    /\ result.ret = [total_spaces |-> 2, occupied_spaces |-> 2,
                     available_spaces |-> 0, active_tickets |-> 1,
                     registered_passes |-> 2]
    /\ ticket_counter = 2

\* C13: issuing a pass adds exactly one pass, unused and of the kind asked
\* for, to the pass registry and advances the counter of that kind alone;
\* total_spaces, occupied_spaces, the active tickets, the ticket counter, the
\* other counter and every pass already registered stay as they were.
C13_IssueTouchesOnlyPasses ==
    [][IssueStep
       => LET kind == IF result'.op = "issue_monthly_pass"
                      THEN "monthly" ELSE "single"
          IN  /\ DOMAIN passes' = DOMAIN passes \cup {result'.ret}
              /\ Cardinality(DOMAIN passes') = Cardinality(DOMAIN passes) + 1
              /\ \A id \in DOMAIN passes : passes'[id] = passes[id]
              /\ passes'[result'.ret].type = IF kind = "monthly" THEN "Monthly Pass"
                                              ELSE "Single Entry Pass"
              /\ ~passes'[result'.ret].is_used
              /\ pass_counter' = [pass_counter EXCEPT ![kind] = @ + 1]
              /\ UNCHANGED <<total_spaces, occupied_spaces, active_tickets,
                             ticket_counter>>]_vars

\* a single-entry pass has been issued while a monthly pass was registered
\* and attached to a parked car
C13_Witness ==
    /\ result.op = "issue_single_pass"
    /\ pass_counter = [monthly |-> 1, single |-> 1]
    /\ occupied_spaces > 0
    /\ \E id \in DOMAIN active_tickets :
          active_tickets[id].parking_pass = <<"MP", 1>>

\* C14: at the exit of a ticket carrying a monthly pass the fee is 0 when the
\* exit time of the receipt, the one the caller supplied, lies before the
\* expiry of the pass, and is the metered fee when it lies at or after the
\* expiry; no other clock decides.
C14_WaiverBySuppliedExitTime ==
    [][(ExitStep /\ IsMonthly(active_tickets[result'.ticket_id].parking_pass))
       => LET r == result'.ret
              expiry_date == passes[r.pass_id].expiry_date
          IN  /\ r.exit_time < expiry_date => r.total_fee = 0
              /\ r.exit_time >= expiry_date => MeteredReceipt(r)]_vars

\* the pass would be accepted by a validity test made at the given time
ValidAt(pass, time) ==
    \/ pass.type = "Monthly Pass" /\ time < pass.expiry_date
    \/ pass.type = "Single Entry Pass" /\ ~pass.is_used

\* C15: a successful entry attaches the named pass to the new ticket exactly
\* when the pass is registered, is valid at the entry time of the ticket, the
\* one the caller supplied, and is bound to the registration of the vehicle;
\* attaching leaves the pass unconsumed.
C15_AttachBySuppliedEntryTime ==
    [][EntryStepWithRoom
       => /\ result'.ret # None
          /\ LET ticket == active_tickets'[result'.ret]
                 pass_id == result'.pass_id
             IN  /\ ticket.parking_pass # None
                    <=> (/\ pass_id \in DOMAIN passes
                         /\ ValidAt(passes[pass_id], ticket.entry_time)
                         /\ passes[pass_id].vehicle_registration
                               = result'.vehicle.registration)
                 /\ ticket.parking_pass # None => ticket.parking_pass = pass_id
                 /\ passes' = passes]_vars

\* C16: when no valid pass applies and the call of vehicle_exit carries a
\* duration override, whatever its value, 0 included, the duration of the
\* receipt is the override and the fee is the metered fee of the override;
\* with no override the duration is the exit time less the entry time.
C16_OverrideAlwaysWins ==
    [][\A ticket_id \in DOMAIN active_tickets,
          exit_time \in Opt(SuppliedTimes),
          pricing_strategy \in Opt(FeeStrategies),
          simulated_duration \in Opt(FeeDurations) :
          (/\ vehicle_exit(ticket_id, exit_time, pricing_strategy, simulated_duration)
           /\ ~HasValidPass(active_tickets[ticket_id]))
          => LET r == result'.ret
             IN  /\ MeteredReceipt(r)
                 /\ r.duration_hours =
                       IF simulated_duration # None THEN simulated_duration[1]
                       ELSE 25 * (r.exit_time - r.entry_time)]_vars

\* C17: no two tickets of the active registry are for vehicles of the same
\* registration.
C17_RegistrationUniqueWhileActive ==
    \A id1, id2 \in DOMAIN active_tickets :
        active_tickets[id1].vehicle.registration
              = active_tickets[id2].vehicle.registration
           => id1 = id2

\* C18: a successful exit releases exactly the spaces_used of its ticket, 2
\* for a Truck and 1 for any other vehicle, and removes that ticket and no
\* other; a successful entry takes the requirement of its vehicle and adds
\* its ticket alone, so an entry followed at once by the exit of its ticket
\* leaves occupied_spaces and the registry as they were before the entry; an
\* entry finding room succeeds, whatever was denied before the room was freed.
C18_ExitReleasesWhatEntryTook ==
    [][/\ ExitStep
          => LET ticket == active_tickets[result'.ticket_id]
             IN  /\ ticket.spaces_used
                       = (IF ticket.vehicle.type = "Truck" THEN 2 ELSE 1)
                 /\ occupied_spaces' = occupied_spaces - ticket.spaces_used
                 /\ DOMAIN active_tickets'
                       = DOMAIN active_tickets \ {result'.ticket_id}
                 /\ \A id \in DOMAIN active_tickets' :
                       active_tickets'[id] = active_tickets[id]
       /\ EntryStepWithRoom
          => /\ result'.ret # None
             /\ result'.ret \notin DOMAIN active_tickets
             /\ occupied_spaces' = occupied_spaces
                   + (IF result'.vehicle.type = "Truck" THEN 2 ELSE 1)
             /\ DOMAIN active_tickets' = DOMAIN active_tickets \cup {result'.ret}
             /\ \A id \in DOMAIN active_tickets :
                   active_tickets'[id] = active_tickets[id]
       /\ (EntryReturned /\ ExitStep /\ result'.ticket_id = result.ret)
          => /\ occupied_spaces' = occupied_spaces
                   - (IF result.vehicle.type = "Truck" THEN 2 ELSE 1)
             /\ active_tickets'
                   = [id \in DOMAIN active_tickets \ {result.ret} |->
                         active_tickets[id]]]_vars

\* in a lot of two spaces the Truck that came second has left and the lot is
\* empty again: the Truck could only enter once the first ticket had left
C18_Witness ==
    /\ ExitReturned
    /\ result.ret.ticket_id = <<"TKT", 2>>
    /\ result.ret.vehicle_type = "Truck"
    /\ total_spaces = 2
    /\ occupied_spaces = 0
    /\ active_tickets = <<>>

\* C19: a monthly pass issued at time t for m months expires at t plus 30 m
\* days; it is accepted, at entry and at exit, at every reading of the clock
\* before the expiry and refused at the expiry and at every later reading; a
\* pass of 0 months is expired when issued, and an expired pass stays expired,
\* so it is never accepted and never attached.
C19_MonthlyExpiry ==
    [][/\ \A months \in ExpiryMonths :
             issue_monthly_pass("XYZ-5678", months)
             => /\ passes'[result'.ret].expiry_date
                      = now + 30 * months * QuarterHoursPerDay
                /\ months = 0 => passes'[result'.ret].expiry_date <= now'
       /\ \A id \in DOMAIN passes :
             passes[id].expiry_date <= now
             => (id \in DOMAIN passes' /\ passes'[id].expiry_date <= now')
       /\ (/\ EntryStepWithRoom
           /\ IsMonthly(result'.pass_id)
           /\ passes[result'.pass_id].vehicle_registration
                 = result'.vehicle.registration)
          => (active_tickets'[result'.ret].parking_pass # None
                 <=> now < passes[result'.pass_id].expiry_date)
       /\ (ExitStep /\ IsMonthly(active_tickets[result'.ticket_id].parking_pass))
          => IF now < passes[result'.ret.pass_id].expiry_date
             THEN result'.ret.total_fee = 0
             ELSE MeteredReceipt(result'.ret) /\ result'.ret.total_fee > 0]_vars

\* a car that entered on its pass a quarter of an hour before the expiry has
\* left at the expiry and paid for the quarter of an hour
C19_Witness ==
    /\ ExitReturned
    /\ result.ret.pass_id = <<"MP", 1>>
    /\ passes[<<"MP", 1>>].expiry_date = 2880
    /\ result.ret.entry_time = 2879
    /\ now = 2880
    /\ result.ret.total_fee = 50

\* C20: when two calls of vehicle_entry run as two processes, each in the
\* steps check, generate, occupy and register, the two never both succeed
\* with a combined requirement above the capacity that was free,
\* occupied_spaces never exceeds total_spaces, and the two never get the
\* same ticket id.
C20_InterleavedEntriesSafe ==
    /\ occupied_spaces <= total_spaces
    /\ \A p, q \in Entrants :
          /\ (/\ p # q
              /\ entering[p].ticket_id # None
              /\ entering[q].ticket_id # None)
             => entering[p].ticket_id # entering[q].ticket_id
          /\ (/\ p # q
              /\ entering[p].ticket_id \in DOMAIN active_tickets
              /\ entering[q].ticket_id \in DOMAIN active_tickets)
             => get_space_requirement(entering[p].vehicle)
                   + get_space_requirement(entering[q].vehicle) <= total_spaces

\* C21: with set_occupied_spaces called between entries and exits, for any
\* count, negative counts and a reset to 0 under active tickets included,
\* occupied_spaces stays between 0 and total_spaces and stays equal to the
\* sum of spaces_used over the active tickets.
C21_BoundsUnderOverride ==
    /\ 0 <= occupied_spaces
    /\ occupied_spaces <= total_spaces
    /\ occupied_spaces = SumSpaces(DOMAIN active_tickets)

\* C22: the strategy named at entry is kept nowhere: the new ticket and the
\* lot after the entry are the same whatever strategy the entry named, the
\* default strategy of the lot stays Standard, and the receipt of an exit
\* bills by the meter at the rates of the strategy named at exit, or of
\* Standard when the exit names none.
C22_EntryStrategyHasNoEffect ==
    [][/\ lot_pricing_strategy' = "Standard"
       /\ EntryStepWithRoom
          => LET spaces_needed == IF result'.vehicle.type = "Truck" THEN 2 ELSE 1
             IN  /\ result'.ret = <<"TKT", ticket_counter + 1>>
                 /\ active_tickets'
                       = (result'.ret :> [vehicle |-> result'.vehicle,
                                          entry_time |-> now,
                                          exit_time |-> None,
                                          parking_pass |-> None,
                                          fee_charged |-> 0,
                                          spaces_used |-> spaces_needed])
                         @@ active_tickets
                 /\ occupied_spaces' = occupied_spaces + spaces_needed
                 /\ ticket_counter' = ticket_counter + 1
                 /\ UNCHANGED <<total_spaces, passes, pass_counter, now>>
       /\ \A ticket_id \in DOMAIN active_tickets,
             pricing_strategy \in Opt(FeeStrategies),
             simulated_duration \in Opt(SuppliedDurations) :
             vehicle_exit(ticket_id, None, pricing_strategy, simulated_duration)
             => LET r == result'.ret
                IN  /\ r.pricing_strategy = IF pricing_strategy # None
                                            THEN pricing_strategy[1]
                                            ELSE "Standard"
                    /\ r.hourly_rate = RateTable[r.pricing_strategy][r.vehicle_type]
                    /\ MeteredReceipt(r)]_vars

\* the second ticket of the lot was issued to a Truck at an entry naming the
\* Peak Hours strategy, and the lot still bills at Standard by default
C22_Witness ==
    /\ EntryReturned
    /\ result.ret = <<"TKT", 2>>
    /\ result.vehicle.type = "Truck"
    /\ result.pricing = "Peak Hours"
    /\ lot_pricing_strategy = "Standard"
    /\ active_tickets[result.ret].spaces_used = 2

====
